---- MODULE Spec2Model ----
(***************************************************************************)
(* A model of the anomaly-scoring core of the fraudulent-consumers         *)
(* detection dashboard: the MGDAnomaly estimator (modules/mgd_model.py),   *)
(* the threshold rule of the application (app.py) and the KPI aggregation  *)
(* (modules/visualization.py).                                             *)
(*                                                                         *)
(* Numbers.  A number is a record [n, d, u]: the rational n/d multiplied   *)
(* by 1/scale_[j] for every column j in u, where scale_[j] is the          *)
(* StandardScaler's per-column scale sqrt(var_[j]).  This keeps the        *)
(* standardized data, their covariance and the precision matrix exact:     *)
(* every sum the code forms adds numbers of one unit u, and a product      *)
(* folds 1/scale_[j] * 1/scale_[j] into the rational 1/var_[j].  d = 0 is  *)
(* the floating-point NaN.  The one rounding is np.sqrt of a score, which  *)
(* is rounded down to a multiple of 1/SqrtScale.                           *)
(***************************************************************************)
EXTENDS Integers, Sequences, FiniteSets, TLC

\* ------------------------------------------------------- MGDAnomaly state
VARIABLES
    fitted,          \* self.fitted
    scaler,          \* self.scaler: the StandardScaler's fitted attributes
    mu,              \* self.mu: None, or the mean of the standardized data
    cov_estimator,   \* self.cov_estimator: the EmpiricalCovariance's attributes
    call,            \* the caller's view of its last call on the instance
    kpi              \* the last result of the threshold / KPI code

vars == <<fitted, scaler, mu, cov_estimator, call, kpi>>
model == <<fitted, scaler, mu, cov_estimator>>

\* ------------------------------------------------------------------ bounds
MaxRows == 2        \* rows of a table passed to fit
MaxScoreRows == 2   \* rows of a table passed to score_samples / predict
MaxVal == 1         \* cell values are 0..MaxVal, or NaN
MaxNaN == 1         \* NaN cells per table
MaxScore == 2       \* scores handed to the KPI code are 0..MaxScore, or NaN
MaxCustomers == 2   \* rows of the customer table handed to the KPI code
MaxMainRows == 4    \* scores of a run of the application's threshold rule
MaxPolicyRows == 3  \* rows of the one-column tables of the threshold / KPI runs
MaxIds == 2         \* customer ids are 1..MaxIds
MaxRecords == 3     \* rows of the consumption table
MaxDataRows == 2    \* rows of a table handed to the data functions
MaxConsumption == 2 \* consumption cells are -1..MaxConsumption, or NaN
MaxStratum == 2     \* strata are 1..MaxStratum
MaxHistory == 3     \* consumption records handed to detect_consumption_changes
MaxWindow == 2      \* the rolling window is 1..MaxWindow months
MaxDate == 2        \* dates of consumption and weather records are 1..MaxDate
MaxShift == 2       \* the KPI example starts at row 1 + k, k in 0..MaxShift
MaxNoise == 1       \* the near rows of the scenario are (v, v, v), v in 0..MaxNoise
SqrtScale == 10     \* np.sqrt results are multiples of 1/SqrtScale
Dims == {1, 2}      \* column counts of the tables

\* ----------------------------------------------------------------- numbers
RECURSIVE GCD(_, _)
GCD(a, b) == IF b = 0 THEN a ELSE GCD(b, a % b)

Abs(x) == IF x < 0 THEN -x ELSE x

NaN == [n |-> 0, d |-> 0, u |-> {}]
IsNaN(x) == x.d = 0

\* n/d in lowest terms with a positive denominator; zero carries no unit
Norm(n, d, u) ==
    IF d = 0 THEN NaN
    ELSE IF n = 0 THEN [n |-> 0, d |-> 1, u |-> {}]
    ELSE LET g == GCD(Abs(n), Abs(d))
             s == IF d < 0 THEN -1 ELSE 1
         IN [n |-> s * (n \div g), d |-> s * (d \div g), u |-> u]

R(v) == Norm(v, 1, {})
Zero == R(0)
One == R(1)

\* (n1 / d1) * (n2 / d2), the common factors taken out before multiplying
Times(n1, d1, n2, d2, u) ==
    IF d1 = 0 \/ d2 = 0 THEN NaN
    ELSE IF n1 = 0 \/ n2 = 0 THEN Norm(0, 1, u)
    ELSE LET g1 == GCD(Abs(n1), Abs(d2))
             g2 == GCD(Abs(n2), Abs(d1))
         IN Norm((n1 \div g1) * (n2 \div g2), (d1 \div g2) * (d2 \div g1), u)

Add(a, b) ==
    IF IsNaN(a) \/ IsNaN(b) THEN NaN
    ELSE LET g == GCD(Abs(a.d), Abs(b.d))
         IN Norm(a.n * (b.d \div g) + b.n * (a.d \div g), (a.d \div g) * b.d,
                 IF a.n = 0 THEN b.u ELSE a.u)

Neg(a) == IF IsNaN(a) THEN NaN ELSE [a EXCEPT !.n = -a.n]
Sub(a, b) == Add(a, Neg(b))

\* a * b, with s2[j] = scale_[j]^2 for the columns whose unit both carry
RECURSIVE FoldUnits(_, _, _)
FoldUnits(x, js, s2) ==
    IF js = {} THEN x
    ELSE LET j == CHOOSE k \in js : TRUE
         IN FoldUnits(Times(x.n, x.d, s2[j].d, s2[j].n, x.u), js \ {j}, s2)

Mul(a, b, s2) ==
    IF IsNaN(a) \/ IsNaN(b) THEN NaN
    ELSE LET both == a.u \cap b.u
         IN IF \E j \in both : IsNaN(s2[j]) THEN NaN
            ELSE FoldUnits(Times(a.n, a.d, b.n, b.d, (a.u \cup b.u) \ both),
                           both, s2)

\* a / b for a unit-free b; a division by zero is NaN here (the code never
\* divides a non-zero number by zero: the scaler replaces a zero scale by 1)
Div(a, b) ==
    IF IsNaN(a) \/ IsNaN(b) \/ b.n = 0 THEN NaN
    ELSE Times(a.n, a.d, b.d, b.n, a.u)

Less(a, b) == ~IsNaN(a) /\ ~IsNaN(b) /\ a.n * b.d < b.n * a.d
Greater(a, b) == Less(b, a)

\* the integer root of v, searched upwards from r
ISqrtFrom(v, r) == CHOOSE q \in r..v : q * q <= v /\ (q + 1) * (q + 1) > v

\* np.sqrt: NaN for a NaN or negative argument, else the root rounded down
\* to a multiple of 1/SqrtScale
Sqrt(x) ==
    IF IsNaN(x) \/ x.n < 0 THEN NaN
    ELSE Norm(ISqrtFrom((x.n * SqrtScale * SqrtScale) \div x.d, 0), SqrtScale, {})

RECURSIVE SumSeq(_)
SumSeq(s) == IF s = <<>> THEN Zero ELSE Add(Head(s), SumSeq(Tail(s)))

\* the array <<F(i), ..., F(n)>>, its entries computed once, in index order
RECURSIVE VecFrom(_, _, _)
VecFrom(F(_), i, n) ==
    IF i > n THEN <<>>
    ELSE IF i = n THEN <<F(i)>>
    ELSE VecFrom(F, i, (i + n) \div 2) \o VecFrom(F, (i + n) \div 2 + 1, n)
Vec(F(_), n) == VecFrom(F, 1, n)

\* ------------------------------------------------------------------ tables
\* A table is what the caller passes as X: None, or rows of ncols cells
None == [none |-> TRUE, ncols |-> 0, rows |-> <<>>]
Table(d, rows) == [none |-> FALSE, ncols |-> d, rows |-> rows]

Cells == {R(v) : v \in 0..MaxVal} \cup {NaN}

NaNCount(d, rows) ==
    Cardinality({c \in (DOMAIN rows) \X (1..d) : IsNaN(rows[c[1]][c[2]])})

TablesOf(d, n) ==
    {Table(d, rows) : rows \in {r \in [1..n -> [1..d -> Cells]] :
                                    NaNCount(d, r) <= MaxNaN}}

TablesUpTo(maxRows) ==
    {None} \cup UNION {TablesOf(c[1], c[2]) : c \in Dims \X (0..maxRows)}

FitTables == TablesUpTo(MaxRows)
ScoreTables == TablesUpTo(MaxScoreRows)

Column(rows, j) == Vec(LAMBDA i : rows[i][j], Len(rows))

\* ---------------------------------------------------------- numpy helpers
HasNaN(d, rows) == \E i \in DOMAIN rows : \E j \in 1..d : IsNaN(rows[i][j])

NonNaN(col) == SelectSeq(col, LAMBDA x : ~IsNaN(x))

\* np.nanmean of one column: the mean of its non-NaN entries, NaN (with a
\* RuntimeWarning) when there is none
NanMean(col) ==
    LET v == NonNaN(col)
    IN IF v = <<>> THEN NaN ELSE Div(SumSeq(v), R(Len(v)))

\* np.mean of one column: NaN as soon as one entry is NaN
Mean(col) == IF col = <<>> THEN NaN ELSE Div(SumSeq(col), R(Len(col)))

\* X_data[inds] = np.take(col_means, inds[1]): every NaN cell becomes the
\* np.nanmean of its column in this batch
ImputeNaN(d, rows) ==
    LET col_means == Vec(LAMBDA j : NanMean(Column(rows, j)), d)
    IN Vec(LAMBDA i : Vec(LAMBDA j : IF IsNaN(rows[i][j]) THEN col_means[j]
                                                           ELSE rows[i][j], d),
           Len(rows))

\* ------------------------------------------------- sklearn StandardScaler
NoUnits == [j \in {} |-> One]

\* the variance of the non-NaN entries of a column around their mean
NanVar(col) ==
    LET v == NonNaN(col)
        m == NanMean(col)
        sq == Vec(LAMBDA i : Mul(Sub(v[i], m), Sub(v[i], m), NoUnits), Len(v))
    IN IF v = <<>> THEN NaN ELSE Div(SumSeq(sq), R(Len(v)))

UnsetScaler == [n_features_in_ |-> 0, mean_ |-> <<>>, var_ |-> <<>>]

\* a fit that keeps the stored mean_ when the column count is the stored one
ScalerWarmFit(d, rows) ==
    [n_features_in_ |-> d,
     mean_ |-> IF scaler.n_features_in_ = d THEN scaler.mean_
               ELSE Vec(LAMBDA j : NanMean(Column(rows, j)), d),
     var_ |-> Vec(LAMBDA j : NanVar(Column(rows, j)), d)]

\* StandardScaler.fit: per-column mean_ and var_ (NaN entries are skipped)
ScalerFit(d, rows) ==
    [n_features_in_ |-> d,
     mean_ |-> Vec(LAMBDA j : NanMean(Column(rows, j)), d),
     var_ |-> Vec(LAMBDA j : NanVar(Column(rows, j)), d)]

\* scale_[j]^2: scale_ = sqrt(var_), except that a zero scale is set to 1
Scale2(sc) ==
    Vec(LAMBDA j : IF ~IsNaN(sc.var_[j]) /\ sc.var_[j].n = 0 THEN One
                                                               ELSE sc.var_[j],
        sc.n_features_in_)

\* (x - mean_[j]) / scale_[j]
Standardize(sc, j, x) ==
    LET c == Sub(x, sc.mean_[j])
    IN IF IsNaN(c) \/ IsNaN(sc.var_[j]) THEN NaN
       ELSE IF sc.var_[j].n = 0 THEN c
       ELSE Norm(c.n, c.d, {j})

\* a transform that divides by scale_[j] and leaves the mean in place
ScalerTransformUncentered(sc, rows) ==
    Vec(LAMBDA i :
           Vec(LAMBDA j :
                  LET x == rows[i][j]
                  IN IF IsNaN(x) \/ IsNaN(sc.var_[j]) THEN NaN
                     ELSE IF sc.var_[j].n = 0 THEN x
                     ELSE Norm(x.n, x.d, {j}),
               sc.n_features_in_),
        Len(rows))

\* StandardScaler.transform with the stored mean_ and scale_
ScalerTransform(sc, rows) ==
    Vec(LAMBDA i : Vec(LAMBDA j : Standardize(sc, j, rows[i][j]),
                       sc.n_features_in_),
        Len(rows))

\* --------------------------------------------- sklearn EmpiricalCovariance
UnsetCov == [n_features_in_ |-> 0, covariance_ |-> <<>>, precision_ |-> <<>>]

\* np.cov(X.T, bias=1): the mean product of the centered columns
Covariance(d, rows, s2) ==
    LET m == Vec(LAMBDA j : Mean(Column(rows, j)), d)
        centered == Vec(LAMBDA i : Vec(LAMBDA j : Sub(rows[i][j], m[j]), d),
                        Len(rows))
    IN Vec(LAMBDA j : Vec(LAMBDA k :
              Mean(Vec(LAMBDA i : Mul(centered[i][j], centered[i][k], s2),
                       Len(rows))), d), d)

\* an inverse that is the zero matrix wherever the matrix has no inverse
PinvhZeroIfSingular(d, C, s2) ==
    IF d = 1 THEN
        << << IF C[1][1].n = 0 THEN Zero ELSE Div(One, C[1][1]) >> >>
    ELSE
        LET det == Sub(Mul(C[1][1], C[2][2], s2), Mul(C[1][2], C[2][1], s2))
        IN IF det.n # 0 THEN
               << << Div(C[2][2], det), Div(Neg(C[1][2]), det) >>,
                  << Div(Neg(C[2][1]), det), Div(C[1][1], det) >> >>
           ELSE
               << <<Zero, Zero>>, <<Zero, Zero>> >>

\* the two indices of 1..3 other than j, in increasing order
Others(j) == IF j = 1 THEN <<2, 3>> ELSE IF j = 2 THEN <<1, 3>> ELSE <<1, 2>>

\* the cofactor (j, k) of a matrix of three columns
Cofactor(C, j, k, s2) ==
    LET r == Others(j)
        c == Others(k)
        minor == Sub(Mul(C[r[1]][c[1]], C[r[2]][c[2]], s2),
                     Mul(C[r[1]][c[2]], C[r[2]][c[1]], s2))
    IN IF (j + k) % 2 = 0 THEN minor ELSE Neg(minor)

\* pinvh of a symmetric positive semi-definite matrix of three columns: the
\* inverse (adjugate / determinant) at rank three; at rank two, where
\* C^2 - tr C + e2 = 0 on the range of C (e2 the sum of the principal
\* minors), (tr (tr C - C^2) / e2 - C) / e2; C / tr^2 at rank one; zero
Pinvh3(C, s2) ==
    LET det == SumSeq(Vec(LAMBDA k : Mul(C[1][k], Cofactor(C, 1, k, s2), s2), 3))
        e2 == SumSeq(Vec(LAMBDA j : Cofactor(C, j, j, s2), 3))
        tr == SumSeq(Vec(LAMBDA j : C[j][j], 3))
        tr2 == Mul(tr, tr, s2)
        C2 == Vec(LAMBDA j : Vec(LAMBDA k :
                  SumSeq(Vec(LAMBDA l : Mul(C[j][l], C[l][k], s2), 3)), 3), 3)
    IN Vec(LAMBDA j : Vec(LAMBDA k :
              IF det.n # 0 THEN Div(Cofactor(C, k, j, s2), det)
              ELSE IF e2.n # 0 THEN
                  Div(Sub(Div(Mul(tr, Sub(Mul(tr, C[j][k], s2), C2[j][k]), s2),
                              e2),
                          C[j][k]),
                      e2)
              ELSE IF tr.n # 0 THEN Div(C[j][k], tr2)
              ELSE Zero, 3), 3)

\* scipy.linalg.pinvh of a symmetric positive semi-definite matrix of up to
\* three columns: the inverse when it has one, else the Moore-Penrose
\* pseudo-inverse (C / trace(C)^2 at rank one, zero at rank zero)
Pinvh(d, C, s2) ==
    IF d = 1 THEN
        << << IF C[1][1].n = 0 THEN Zero ELSE Div(One, C[1][1]) >> >>
    ELSE IF d = 3 THEN Pinvh3(C, s2)
    ELSE
        LET det == Sub(Mul(C[1][1], C[2][2], s2), Mul(C[1][2], C[2][1], s2))
            tr == Add(C[1][1], C[2][2])
        IN IF det.n # 0 THEN
               << << Div(C[2][2], det), Div(Neg(C[1][2]), det) >>,
                  << Div(Neg(C[2][1]), det), Div(C[1][1], det) >> >>
           ELSE IF tr.n # 0 THEN
               LET tr2 == Mul(tr, tr, s2)
               IN << << Div(C[1][1], tr2), Div(C[1][2], tr2) >>,
                     << Div(C[2][1], tr2), Div(C[2][2], tr2) >> >>
           ELSE
               << <<Zero, Zero>>, <<Zero, Zero>> >>

\* EmpiricalCovariance.fit on NaN-free data: covariance_ and precision_
CovFit(d, rows, s2) ==
    LET C == Covariance(d, rows, s2)
    IN [n_features_in_ |-> d, covariance_ |-> C, precision_ |-> Pinvh(d, C, s2)]

\* ------------------------------------------------------ MGDAnomaly calls
NoMu == [none |-> TRUE, v |-> <<>>]
Mu(v) == [none |-> FALSE, v |-> v]

\* the threshold argument of predict: None, or a number
NoThreshold == [none |-> TRUE, v |-> Zero]
Threshold(v) == [none |-> FALSE, v |-> v]
Thresholds == {NoThreshold, Threshold(One)}

\* a constructor that starts the mean as a vector without entries
FreshEmptyMean == [fitted |-> FALSE, scaler |-> UnsetScaler, mu |-> Mu(<<>>),
                   cov_estimator |-> UnsetCov]

\* the attributes of a newly constructed instance
Fresh == [fitted |-> FALSE, scaler |-> UnsetScaler, mu |-> NoMu,
          cov_estimator |-> UnsetCov]

\* the attributes of the instance as they are now
Attributes == [fitted |-> fitted, scaler |-> scaler, mu |-> mu,
               cov_estimator |-> cov_estimator]

\* The record of a call.  X is the caller's table as passed, Xafter the same
\* array after the call (the NaN handling writes into it), out the outcome
\* ("ok", or the exception raised); self tells that the instance itself was
\* returned, values is the returned array otherwise, and scores the array
\* score_samples handed to predict.  before holds the attributes of the
\* instance when the call began.
Call(op, X, Xafter, threshold, out, self, values, scores) ==
    [op |-> op, X |-> X, Xafter |-> Xafter, threshold |-> threshold,
     out |-> out, self |-> self, values |-> values, scores |-> scores,
     before |-> Attributes]

NoCall ==
    [op |-> "none", X |-> None, Xafter |-> None, threshold |-> NoThreshold,
     out |-> "ok", self |-> FALSE, values |-> <<>>, scores |-> <<>>,
     before |-> Fresh]

\* the calls on one instance are made one after the other by one caller
Idle == call.op = "none"

\* an optional number: None, or a value
\* a metric without ground truth reported as the number 0
AbsentAsZero == [none |-> FALSE, v |-> Zero]

Absent == [none |-> TRUE, v |-> Zero]
Just(v) == [none |-> FALSE, v |-> v]

\* The record of a run of the threshold / KPI code: its inputs (scores,
\* threshold, customers), the anomaly mask it computed and the metrics
KpiRun(op, scores, threshold, customers, mask, metrics) ==
    [op |-> op, scores |-> scores, threshold |-> threshold,
     customers |-> customers, mask |-> mask, metrics |-> metrics]

Metrics(total, anomalies, rate, precision, recall, f1) ==
    [total_customers |-> total, anomalies_detected |-> anomalies,
     detection_rate |-> rate, precision |-> precision, recall |-> recall,
     f1 |-> f1]

\* the metrics of the empty data case told as zeros throughout
EmptyMetricsZeros == Metrics(0, 0, Zero, Just(Zero), Just(Zero), Just(Zero))

\* the metrics of the empty data case
EmptyMetrics == Metrics(0, 0, Zero, Absent, Absent, Absent)

NoCustomers == [has_label |-> FALSE, is_fraudulent |-> <<>>]
NoKpi == KpiRun("none", <<>>, Zero, NoCustomers, <<>>, EmptyMetrics)

\* MGDAnomaly.__init__
Init ==
    /\ fitted = Fresh.fitted
    /\ scaler = Fresh.scaler
    /\ mu = Fresh.mu
    /\ cov_estimator = Fresh.cov_estimator
    /\ call = NoCall
    /\ kpi = NoKpi

\* the caller's array after the NaN handling of fit and score_samples
Imputed(X) ==
    IF HasNaN(X.ncols, X.rows)
    THEN [X EXCEPT !.rows = ImputeNaN(X.ncols, X.rows)]
    ELSE X

\* an empty-input guard that tests for None alone
NoDataNoneOnly(X) == X.none

\* an empty-input guard that also turns a single row away
NoDataOrSingleRow(X) == X.none \/ Len(X.rows) <= 1

\* the empty-input guard of fit
NoData(X) == X.none \/ Len(X.rows) = 0

\* MGDAnomaly.fit(X)
Fit(X) ==
    /\ Idle
    /\ UNCHANGED kpi
    /\ IF NoData(X) THEN
           /\ fitted' = FALSE
           /\ UNCHANGED <<scaler, mu, cov_estimator>>
           /\ call' = Call("fit", X, X, NoThreshold, "ok", TRUE, <<>>, <<>>)
       ELSE
           LET X_data == Imputed(X)
               sc == ScalerFit(X.ncols, X_data.rows)
               X_scaled == ScalerTransform(sc, X_data.rows)
               m == Vec(LAMBDA j : Mean(Column(X_scaled, j)), X.ncols)
           IN /\ scaler' = sc
              /\ mu' = Mu(m)
              /\ IF HasNaN(X.ncols, X_scaled) THEN
                     \* EmpiricalCovariance.fit rejects NaN input
                     /\ UNCHANGED <<cov_estimator, fitted>>
                     /\ call' = Call("fit", X, X_data, NoThreshold, "ValueError",
                                     FALSE, <<>>, <<>>)
                 ELSE
                     /\ cov_estimator' = CovFit(X.ncols, X_scaled, Scale2(sc))
                     /\ fitted' = TRUE
                     /\ call' = Call("fit", X, X_data, NoThreshold, "ok",
                                     TRUE, <<>>, <<>>)

\* np.dot(np.dot(centered_x, precision), centered_x)
Quadratic(d, centered_x, precision, s2) ==
    LET t == Vec(LAMBDA k :
                SumSeq(Vec(LAMBDA j : Mul(centered_x[j], precision[j][k], s2), d)),
                 d)
    IN SumSeq(Vec(LAMBDA k : Mul(t[k], centered_x[k], s2), d))

\* the score of one standardized row x
RowScore(x) ==
    LET d == scaler.n_features_in_
        centered_x == Vec(LAMBDA j : Sub(x[j], mu.v[j]), d)
    IN Sqrt(Quadratic(d, centered_x, cov_estimator.precision_, Scale2(scaler)))

\* the loop writing the scores back to front
RECURSIVE ScoreLoopReversed(_, _, _)
ScoreLoopReversed(X_scaled, i, scores) ==
    IF i > Len(X_scaled) THEN scores
    ELSE ScoreLoopReversed(X_scaled, i + 1,
            [scores EXCEPT ![Len(X_scaled) + 1 - i] = RowScore(X_scaled[i])])

\* the loop of score_samples: scores[i] for i, x in enumerate(X_scaled)
RECURSIVE ScoreLoop(_, _, _)
ScoreLoop(X_scaled, i, scores) ==
    IF i > Len(X_scaled) THEN scores
    ELSE ScoreLoop(X_scaled, i + 1, [scores EXCEPT ![i] = RowScore(X_scaled[i])])

\* StandardScaler.fit_transform(X_data): the scaler is fitted to the batch
FitTransform(sc, rows) ==
    LET refit == ScalerFit(sc.n_features_in_, rows)
    IN [scaler |-> refit, X_scaled |-> ScalerTransform(refit, rows)]

\* StandardScaler.transform(X_data): the standardized rows, and the scaler,
\* which the call leaves as it is
Transform(sc, rows) == [scaler |-> sc, X_scaled |-> ScalerTransform(sc, rows)]

\* the exception swallowed and a NaN score returned for every row
RejectedAsNaN(X, exception) ==
    [out |-> "ok", scores |-> Vec(LAMBDA i : NaN, Len(X.rows)),
     Xafter |-> X, scaler |-> scaler]

\* an exception leaving score_samples: no scores are returned
Rejected(X, exception) ==
    [out |-> exception, scores |-> <<>>, Xafter |-> X, scaler |-> scaler]

\* MGDAnomaly.score_samples(X): the outcome, the scores, the caller's array
\* and the scaler after the call
ScoreSamples(X) ==
    IF ~fitted THEN
        [out |-> "ok", scores |-> <<>>, Xafter |-> X, scaler |-> scaler]
    ELSE IF X.none THEN
        \* np.isnan(None)
        Rejected(X, "TypeError")
    ELSE IF Len(X.rows) = 0 \/ X.ncols # scaler.n_features_in_ THEN
        \* StandardScaler.transform rejects the table
        Rejected(Imputed(X), "ValueError")
    ELSE IF X.ncols # cov_estimator.n_features_in_ THEN
        \* np.dot: the shapes are not aligned
        Rejected(Imputed(X), "ValueError")
    ELSE
        LET X_data == Imputed(X)
            t == Transform(scaler, X_data.rows)
        IN [out |-> "ok",
            scores |-> ScoreLoop(t.X_scaled, 1,
                                 Vec(LAMBDA i : Zero, Len(t.X_scaled))),
            Xafter |-> X_data,
            scaler |-> t.scaler]

DoScoreSamples(X) ==
    /\ Idle
    /\ LET r == ScoreSamples(X)
       IN /\ call' = Call("score_samples", X, r.Xafter, NoThreshold, r.out,
                          FALSE, r.scores, r.scores)
          /\ scaler' = r.scaler
    /\ UNCHANGED <<fitted, mu, cov_estimator, kpi>>

\* np.var: the mean squared deviation from the mean
Var(xs) ==
    LET m == Mean(xs)
    IN Mean(Vec(LAMBDA i : Mul(Sub(xs[i], m), Sub(xs[i], m), NoUnits), Len(xs)))

\* a threshold that leaves the standard deviation out
MeanOnly(scores, k) == Mean(scores)

\* np.mean(scores) + k * np.std(scores)
MeanPlusStd(scores, k) == Add(Mean(scores), Mul(k, Sqrt(Var(scores)), NoUnits))

\* the flags with >= for >
FlagsAtLeast(scores, threshold) ==
    Vec(LAMBDA i : IF Less(scores[i], threshold) \/ IsNaN(scores[i])
                       \/ IsNaN(threshold) THEN 0 ELSE 1, Len(scores))

\* (scores > threshold).astype(int)
Flags(scores, threshold) ==
    Vec(LAMBDA i : IF Greater(scores[i], threshold) THEN 1 ELSE 0, Len(scores))

\* MGDAnomaly.predict(X, threshold)
Predict(X, threshold) ==
    /\ Idle
    /\ LET r == ScoreSamples(X)
           t == IF threshold.none THEN MeanPlusStd(r.scores, R(3))
                                  ELSE threshold.v
       IN /\ call' = Call("predict", X, r.Xafter, threshold, r.out, FALSE,
                          IF r.out = "ok" /\ Len(r.scores) # 0
                              THEN Flags(r.scores, t) ELSE <<>>,
                          r.scores)
          /\ scaler' = r.scaler
    /\ UNCHANGED <<fitted, mu, cov_estimator, kpi>>

\* the diagonal read without the guard on the fitted flag
FeatureImportanceUnguarded ==
    Vec(LAMBDA j : LET c == cov_estimator.covariance_[j][j]
                   IN IF IsNaN(c) THEN NaN ELSE [c EXCEPT !.n = Abs(c.n)],
        cov_estimator.n_features_in_)

\* the entries of the other diagonal, covariance_[j][d + 1 - j]
FeatureImportanceAntiDiagonal ==
    IF ~fitted THEN <<>>
    ELSE Vec(LAMBDA j :
                LET c == cov_estimator.covariance_[j]
                             [cov_estimator.n_features_in_ + 1 - j]
                IN IF IsNaN(c) THEN NaN ELSE [c EXCEPT !.n = Abs(c.n)],
             cov_estimator.n_features_in_)

\* np.abs(np.diag(covariance_))
FeatureImportance ==
    IF ~fitted THEN <<>>
    ELSE Vec(LAMBDA j : LET c == cov_estimator.covariance_[j][j]
                        IN IF IsNaN(c) THEN NaN ELSE [c EXCEPT !.n = Abs(c.n)],
             cov_estimator.n_features_in_)

\* MGDAnomaly.get_feature_importance()
GetFeatureImportance ==
    /\ Idle
    /\ call' = Call("get_feature_importance", None, None, NoThreshold, "ok",
                    FALSE, FeatureImportance, <<>>)
    /\ UNCHANGED <<fitted, scaler, mu, cov_estimator, kpi>>

\* ------------------------------------------------ threshold and KPI code
\* anomaly_mask = anomaly_scores > threshold (app.py, main)
AnomalyMask(anomaly_scores, threshold) ==
    Vec(LAMBDA i : Greater(anomaly_scores[i], threshold), Len(anomaly_scores))

\* main: the threshold and the mask of a run with scores
MainThreshold(anomaly_scores, anomaly_threshold_factor) ==
    /\ Idle
    /\ LET threshold == MeanPlusStd(anomaly_scores, anomaly_threshold_factor)
       IN kpi' = KpiRun("main", anomaly_scores, threshold, NoCustomers,
                        AnomalyMask(anomaly_scores, threshold), EmptyMetrics)
    /\ call' = Call("main", None, None, NoThreshold, "ok", FALSE, <<>>, <<>>)
    /\ UNCHANGED <<fitted, scaler, mu, cov_estimator>>

\* main, with a feature table that is empty: no model is built; threshold,
\* scores, mask and metrics are set by hand
MainNoData(features, filtered_customers) ==
    /\ Idle
    /\ NoData(features)
    /\ kpi' = KpiRun("main: no data", <<>>, Zero, filtered_customers, <<>>,
                     EmptyMetrics)
    /\ call' = Call("main: no data", features, features, NoThreshold, "ok",
                    FALSE, <<>>, <<>>)
    /\ UNCHANGED <<fitted, scaler, mu, cov_estimator>>

\* MGDAnomaly(): the instance is a new one
Construct ==
    /\ Idle
    /\ fitted' = Fresh.fitted
    /\ scaler' = Fresh.scaler
    /\ mu' = Fresh.mu
    /\ cov_estimator' = Fresh.cov_estimator
    /\ call' = Call("__init__", None, None, NoThreshold, "ok", TRUE, <<>>, <<>>)
    /\ UNCHANGED kpi

\* main, after mgd_model.fit(features_subset) has returned: the same rows
\* are scored, and the threshold and the mask are computed from the scores
MainScore(anomaly_threshold_factor) ==
    /\ call.op = "fit" /\ call.out = "ok" /\ fitted
    /\ LET r == ScoreSamples(call.Xafter)
           anomaly_scores == r.scores
           threshold == MeanPlusStd(anomaly_scores, anomaly_threshold_factor)
           anomaly_mask == AnomalyMask(anomaly_scores, threshold)
       IN /\ scaler' = r.scaler
          /\ IF r.out = "ok" THEN
                 /\ kpi' = KpiRun("main", anomaly_scores, threshold,
                                  NoCustomers, anomaly_mask, EmptyMetrics)
                 /\ call' = Call("main", call.Xafter, r.Xafter, NoThreshold,
                                 "ok", FALSE, anomaly_mask, anomaly_scores)
             ELSE
                 /\ UNCHANGED kpi
                 /\ call' = Call("main", call.Xafter, r.Xafter, NoThreshold,
                                 r.out, FALSE, <<>>, <<>>)
    /\ UNCHANGED <<fitted, mu, cov_estimator>>

\* a over b, not times 100
Fraction(a, b) == Div(R(a), R(b))

\* the mask with >= for >
KpiMaskAtLeast(anomaly_scores, threshold) ==
    Vec(LAMBDA i : ~Less(anomaly_scores[i], threshold)
                   /\ ~IsNaN(anomaly_scores[i]), Len(anomaly_scores))

\* anomaly_mask = anomaly_scores > threshold (visualization.py)
KpiMask(anomaly_scores, threshold) ==
    Vec(LAMBDA i : Greater(anomaly_scores[i], threshold), Len(anomaly_scores))

Count(flags) == Len(SelectSeq(flags, LAMBDA b : b))
Min(a, b) == IF a < b THEN a ELSE b
Percent(a, b) == Div(R(100 * a), R(b))

\* the metrics with every division done, whatever the divisor
KpiCardsUnguarded(anomaly_scores, threshold, customers_df) ==
    IF Len(anomaly_scores) = 0 \/ Len(customers_df.is_fraudulent) = 0 THEN
        [mask |-> <<>>, metrics |-> EmptyMetrics]
    ELSE
        LET n_samples == Min(Len(customers_df.is_fraudulent), Len(anomaly_scores))
            frauds == SubSeq(customers_df.is_fraudulent, 1, n_samples)
            scores == SubSeq(anomaly_scores, 1, n_samples)
            anomaly_mask == KpiMask(scores, threshold)
            anomalies_detected == Count(anomaly_mask)
            true_positives ==
                Count(Vec(LAMBDA i : anomaly_mask[i] /\ frauds[i], n_samples))
            precision == Percent(true_positives, anomalies_detected)
            recall == Percent(true_positives, Count(frauds))
            f1 == Mul(R(2), Div(Mul(precision, recall, NoUnits),
                                Add(precision, recall)), NoUnits)
        IN [mask |-> anomaly_mask,
            metrics |->
              IF customers_df.has_label
              THEN Metrics(n_samples, anomalies_detected,
                           Percent(anomalies_detected, n_samples),
                           Just(precision), Just(recall), Just(f1))
              ELSE Metrics(n_samples, anomalies_detected,
                           Percent(anomalies_detected, n_samples),
                           Absent, Absent, Absent)]

\* create_kpi_cards(anomaly_scores, threshold, customers_df): the mask and
\* the metrics; customers_df is given by its is_fraudulent column, if any,
\* and its number of rows
KpiCards(anomaly_scores, threshold, customers_df) ==
    IF Len(anomaly_scores) = 0 \/ Len(customers_df.is_fraudulent) = 0 THEN
        [mask |-> <<>>, metrics |-> EmptyMetrics]
    ELSE
        LET n_samples == Min(Len(customers_df.is_fraudulent), Len(anomaly_scores))
            frauds == SubSeq(customers_df.is_fraudulent, 1, n_samples)
            scores == SubSeq(anomaly_scores, 1, n_samples)
            anomaly_mask == KpiMask(scores, threshold)
            total_customers == Len(frauds)
            anomalies_detected == Count(anomaly_mask)
            detection_rate == IF total_customers > 0
                                THEN Percent(anomalies_detected, total_customers)
                                ELSE Zero
            true_positives ==
                Count(Vec(LAMBDA i : anomaly_mask[i] /\ frauds[i], n_samples))
            true_frauds == Count(frauds)
            precision == IF anomalies_detected > 0
                           THEN Percent(true_positives, anomalies_detected)
                           ELSE Zero
            recall == IF true_frauds > 0 THEN Percent(true_positives, true_frauds)
                                         ELSE Zero
            f1 == IF Greater(Add(precision, recall), Zero)
                    THEN Mul(R(2), Div(Mul(precision, recall, NoUnits),
                                       Add(precision, recall)), NoUnits)
                    ELSE Zero
        IN [mask |-> anomaly_mask,
            metrics |->
              IF customers_df.has_label
              THEN Metrics(total_customers, anomalies_detected, detection_rate,
                           Just(precision), Just(recall), Just(f1))
              ELSE Metrics(total_customers, anomalies_detected, detection_rate,
                           Absent, Absent, Absent)]

CreateKpiCards(anomaly_scores, threshold, customers_df) ==
    /\ Idle
    /\ LET r == KpiCards(anomaly_scores, threshold, customers_df)
       IN kpi' = KpiRun("create_kpi_cards", anomaly_scores, threshold,
                        customers_df, r.mask, r.metrics)
    /\ call' = Call("create_kpi_cards", None, None, NoThreshold, "ok",
                    FALSE, <<>>, <<>>)
    /\ UNCHANGED <<fitted, scaler, mu, cov_estimator>>

\* the inputs of the threshold / KPI code
ScoreVals == {R(v) : v \in 0..MaxScore} \cup {NaN}
ScoreVectors == UNION {[1..n -> ScoreVals] : n \in 0..MaxScoreRows}
MainVectors == UNION {[1..n -> ScoreVals] : n \in 0..MaxMainRows}
PolicyThresholds == {R(v) : v \in 0..MaxScore}
Factors == {Norm(3, 2, {}), R(3), R(5)}
CustomerTables ==
    {[has_label |-> h, is_fraudulent |-> f] :
        h \in BOOLEAN, f \in UNION {[1..n -> BOOLEAN] : n \in 0..MaxCustomers}}

\* the KPI example: a hundred customers, ten of them frauds (rows
\* k + 4 .. k + 13), and scores that put eight rows (k + 1 .. k + 8) above
\* the threshold
Hundred == 1..100
ExampleThreshold == R(1)
ExampleScores(k) ==
    [i \in Hundred |-> IF i \in (k + 1)..(k + 8) THEN R(2) ELSE Zero]
ExampleCustomers(k) ==
    [has_label |-> TRUE,
     is_fraudulent |-> [i \in Hundred |-> i \in (k + 4)..(k + 13)]]

\* the tables of the runs of the threshold / KPI code: one column
PolicyTables == UNION {TablesOf(1, n) : n \in 1..MaxPolicyRows}

\* the caller takes the returned value, or catches the exception
Return ==
    /\ ~Idle
    /\ call' = NoCall
    /\ kpi' = NoKpi
    /\ UNCHANGED <<fitted, scaler, mu, cov_estimator>>

Next ==
    \/ \E X \in FitTables : Fit(X)
    \/ \E X \in ScoreTables : DoScoreSamples(X)
    \/ \E X \in ScoreTables : \E t \in Thresholds : Predict(X, t)
    \/ GetFeatureImportance
    \/ Return

Spec == Init /\ [][Next]_vars

\* the threshold / KPI code, with predict on a model fitted on one column
NextPolicy ==
    \/ \E X \in PolicyTables : Fit(X)
    \/ \E X \in PolicyTables :
          \E t \in {NoThreshold} \cup {Threshold(v) : v \in PolicyThresholds} :
             Predict(X, t)
    \/ \E s \in MainVectors : \E k \in Factors : MainThreshold(s, k)
    \/ \E s \in ScoreVectors : \E t \in PolicyThresholds :
          \E c \in CustomerTables : CreateKpiCards(s, t, c)
    \/ \E k \in 0..MaxShift :
          CreateKpiCards(ExampleScores(k), ExampleThreshold, ExampleCustomers(k))
    \/ \E X \in TablesOf(1, 0) \cup TablesOf(2, 0) : \E c \in CustomerTables :
          MainNoData(X, c)
    \/ Return

SpecPolicy == Init /\ [][NextPolicy]_vars

\* ------------------------------------------------------- prepare_features
\* A customer row is its customer_id and zone_code, a consumption row its
\* customer_id and its period: "current" for the month analysed, "prev" for
\* the same month of the year before.  A feature row is named by the
\* customer_id it carries.
NoZone == "none"

\* df[df[...] == value]['customer_id']: the ids of the rows of a period
PeriodIds(consumption_df, period) ==
    LET rows == SelectSeq(consumption_df, LAMBDA r : r.period = period)
    IN Vec(LAMBDA i : rows[i].customer_id, Len(rows))

\* pd.merge(left, right, on='customer_id', how='inner') on the ids: the
\* left rows in their order, each once for every right row of the same id
RECURSIVE MergeInner(_, _)
MergeInner(left, right) ==
    IF left = <<>> THEN <<>>
    ELSE SelectSeq(right, LAMBDA id : id = Head(left))
         \o MergeInner(Tail(left), right)

\* what prepare_features returns: the customer ids of the rows of
\* features_for_model, customer_ids, and the rows of filtered_customers
Prepared(features, filtered_customers) ==
    [features |-> features, customer_ids |-> features,
     filtered_customers |-> filtered_customers]

\* prepare_features(customers_df, consumption_df, weather_df, ...,
\* selected_zone)
PrepareResult(customers_df, consumption_df, selected_zone) ==
    IF customers_df = <<>> \/ consumption_df = <<>> THEN Prepared(<<>>, <<>>)
    ELSE
        LET zone_customers ==
                {customers_df[i].customer_id :
                    i \in {k \in DOMAIN customers_df :
                              customers_df[k].zone_code = selected_zone}}
            keep(ids) == IF selected_zone = NoZone THEN ids
                         ELSE SelectSeq(ids, LAMBDA id : id \in zone_customers)
            current_month_data == keep(PeriodIds(consumption_df, "current"))
            prev_month_data == keep(PeriodIds(consumption_df, "prev"))
            filtered_customers ==
                IF selected_zone = NoZone THEN customers_df
                ELSE SelectSeq(customers_df,
                               LAMBDA c : c.zone_code = selected_zone)
            merged_data == MergeInner(current_month_data, prev_month_data)
            features ==
                MergeInner(merged_data,
                           Vec(LAMBDA i : filtered_customers[i].customer_id,
                               Len(filtered_customers)))
        IN IF current_month_data = <<>> \/ prev_month_data = <<>>
               \/ merged_data = <<>>
           THEN Prepared(<<>>, filtered_customers)
           ELSE Prepared(features, filtered_customers)

PrepareFeatures(customers_df, consumption_df, selected_zone) ==
    /\ Idle
    /\ call' = Call("prepare_features",
                    [none |-> TRUE, ncols |-> 0, rows |-> <<>>,
                     customers_df |-> customers_df,
                     consumption_df |-> consumption_df,
                     selected_zone |-> selected_zone],
                    None, NoThreshold, "ok", FALSE,
                    PrepareResult(customers_df, consumption_df, selected_zone),
                    <<>>)
    /\ UNCHANGED <<fitted, scaler, mu, cov_estimator, kpi>>

\* the inputs of prepare_features: customers with distinct ids
Zones == {"a", "b"}
CustomerFrames ==
    {c \in UNION {[1..n -> [customer_id : 1..MaxIds, zone_code : Zones]] :
                     n \in 0..MaxIds} :
        \A i, j \in DOMAIN c : c[i].customer_id = c[j].customer_id => i = j}
ConsumptionFrames ==
    UNION {[1..n -> [customer_id : 1..MaxIds, period : {"current", "prev"}]] :
              n \in 0..MaxRecords}

NextPrepare ==
    \/ \E c \in CustomerFrames : \E u \in ConsumptionFrames :
          \E z \in Zones \cup {NoZone} : PrepareFeatures(c, u, z)
    \/ Return

SpecPrepare == Init /\ [][NextPrepare]_vars

\* ------------------------------------------------------------- clean_data
\* A data table is its column names and its rows; a row carries its index
\* label and one cell for each column.
Frame(columns, rows) == [columns |-> columns, rows |-> rows]

\* the columns argument: None, or a list of column names
NoSubset == [none |-> TRUE, v |-> {}]
Subset(names) == [none |-> FALSE, v |-> names]

\* a >= b and a <= b on floats: both false when one side is NaN
GreaterEq(a, b) == ~IsNaN(a) /\ ~IsNaN(b) /\ ~Less(a, b)
LessEq(a, b) == GreaterEq(b, a)

\* DataFrame.dropna(subset=columns)
DropNa(rows, subset) ==
    SelectSeq(rows, LAMBDA r : \A c \in subset : ~IsNaN(r.cells[c]))

\* clean_data with the upper bound applied when it is truthy (not 0)
CleanDataTruthyMax(data_df, columns, min_consumption, max_consumption) ==
    IF data_df.rows = <<>> THEN [out |-> "ok", df |-> data_df]
    ELSE
        LET subset == IF columns.none THEN data_df.columns ELSE columns.v
        IN IF ~(subset \subseteq data_df.columns)
           THEN [out |-> "KeyError", df |-> Frame({}, <<>>)]
           ELSE
               LET cleaned_df == DropNa(data_df.rows, subset)
                   above ==
                       SelectSeq(cleaned_df, LAMBDA r :
                           GreaterEq(r.cells["consumption"], min_consumption))
                   below ==
                       SelectSeq(above, LAMBDA r :
                           LessEq(r.cells["consumption"], max_consumption.v))
               IN [out |-> "ok",
                   df |-> Frame(data_df.columns,
                                IF "consumption" \notin data_df.columns
                                THEN cleaned_df
                                ELSE IF max_consumption.none
                                        \/ max_consumption.v = Zero
                                THEN above ELSE below)]

\* clean_data(data_df, columns, min_consumption, max_consumption): the
\* outcome and the table returned
CleanData(data_df, columns, min_consumption, max_consumption) ==
    IF data_df.rows = <<>> THEN [out |-> "ok", df |-> data_df]
    ELSE
        LET subset == IF columns.none THEN data_df.columns ELSE columns.v
        IN IF ~(subset \subseteq data_df.columns)
           THEN [out |-> "KeyError", df |-> Frame({}, <<>>)]
           ELSE
               LET cleaned_df == DropNa(data_df.rows, subset)
                   above ==
                       SelectSeq(cleaned_df, LAMBDA r :
                           GreaterEq(r.cells["consumption"], min_consumption))
                   below ==
                       SelectSeq(above, LAMBDA r :
                           LessEq(r.cells["consumption"], max_consumption.v))
               IN [out |-> "ok",
                   df |-> Frame(data_df.columns,
                                IF "consumption" \notin data_df.columns
                                THEN cleaned_df
                                ELSE IF max_consumption.none
                                THEN above ELSE below)]

\* the record of a call of a data function: its arguments as passed and as
\* they are after the call, its outcome and the value it returned
DataCall(op, args, argsAfter, out, values) ==
    Call(op, [none |-> TRUE, ncols |-> 0, rows |-> <<>>, args |-> args],
         [none |-> TRUE, ncols |-> 0, rows |-> <<>>, args |-> argsAfter],
         NoThreshold, out, FALSE, values, <<>>)

DoCleanData(data_df, columns, min_consumption, max_consumption) ==
    /\ Idle
    /\ LET args == [data_df |-> data_df, columns |-> columns,
                    min_consumption |-> min_consumption,
                    max_consumption |-> max_consumption]
           r == CleanData(data_df, columns, min_consumption, max_consumption)
       IN call' = DataCall("clean_data", args, args, r.out, r.df)
    /\ UNCHANGED <<fitted, scaler, mu, cov_estimator, kpi>>

\* the tables handed to clean_data: with or without a consumption column
ConsumptionCells == {NaN} \cup {R(v) : v \in (-1)..MaxConsumption}
OtherCells == {NaN, Zero}
CleanCellsOf(c) == IF c = "consumption" THEN ConsumptionCells ELSE OtherCells
CleanRows(columns) ==
    {r \in [columns -> ConsumptionCells] : \A c \in columns : r[c] \in CleanCellsOf(c)}
CleanFramesOf(columns, n) ==
    {Frame(columns, Vec(LAMBDA i : [index |-> i, cells |-> rows[i]], n)) :
        rows \in [1..n -> CleanRows(columns)]}
CleanFrames ==
    UNION {CleanFramesOf(p[1], p[2]) :
              p \in {{"consumption", "other"}, {"other"}} \X (0..MaxDataRows)}

\* ------------------------------------------------------ filter_by_stratum
\* the stratum argument: one number, or a list of numbers
OneStratum(v) == [single |-> TRUE, v |-> {v}]
Strata(vs) == [single |-> FALSE, v |-> vs]

\* the consumption rows of every customer of the table, filtered or not
FilterByStratumAnyCustomer(customers_df, consumption_df, stratum) ==
    LET ids == {customers_df[i].customer_id : i \in DOMAIN customers_df}
    IN [filtered_customers |->
            SelectSeq(customers_df, LAMBDA c : c.stratum \in stratum.v),
        filtered_consumption |->
            SelectSeq(consumption_df, LAMBDA r : r.customer_id \in ids)]

\* filter_by_stratum(customers_df, consumption_df, stratum)
FilterByStratum(customers_df, consumption_df, stratum) ==
    LET filtered_customers ==
            SelectSeq(customers_df, LAMBDA c : c.stratum \in stratum.v)
        ids == {filtered_customers[i].customer_id :
                   i \in DOMAIN filtered_customers}
    IN [filtered_customers |-> filtered_customers,
        filtered_consumption |->
            SelectSeq(consumption_df, LAMBDA r : r.customer_id \in ids)]

DoFilterByStratum(customers_df, consumption_df, stratum) ==
    /\ Idle
    /\ LET args == [customers_df |-> customers_df,
                    consumption_df |-> consumption_df, stratum |-> stratum]
       IN call' = DataCall("filter_by_stratum", args, args, "ok",
                           FilterByStratum(customers_df, consumption_df,
                                           stratum))
    /\ UNCHANGED <<fitted, scaler, mu, cov_estimator, kpi>>

\* customers with a stratum, and consumption rows naming a customer
StratumCustomers ==
    UNION {[1..n -> [customer_id : 1..MaxIds, stratum : 1..MaxStratum]] :
              n \in 0..MaxIds}
StratumConsumption ==
    UNION {{Vec(LAMBDA i : [index |-> i, customer_id |-> ids[i]], n) :
               ids \in [1..n -> 1..MaxIds]} : n \in 0..MaxDataRows}
StratumArgs ==
    {OneStratum(v) : v \in 1..(MaxStratum + 1)}
    \cup {Strata(vs) : vs \in SUBSET (1..MaxStratum)}

\* --------------------------------------------- detect_consumption_changes
\* the customer_ids argument: None, or a list of ids
NoIds == [none |-> TRUE, v |-> <<>>]
Ids(v) == [none |-> FALSE, v |-> v]

\* Series.unique(): the values in the order of their first appearance
RECURSIVE Unique(_)
Unique(xs) ==
    IF xs = <<>> THEN <<>>
    ELSE LET rest == Unique(SelectSeq(Tail(xs), LAMBDA x : x # Head(xs)))
         IN <<Head(xs)>> \o rest

\* sort_values('date') on rows of distinct dates
RECURSIVE SortByDate(_)
SortByDate(rows) ==
    IF rows = <<>> THEN <<>>
    ELSE LET first == CHOOSE r \in {rows[i] : i \in DOMAIN rows} :
                         \A i \in DOMAIN rows : r.date <= rows[i].date
         IN <<first>> \o SortByDate(SelectSeq(rows, LAMBDA r : r # first))

\* history['consumption'].rolling(window=window).mean() at position k: NaN
\* before the window is full and where the window holds a NaN
RollingAvg(history, k, window) ==
    IF k < window THEN NaN
    ELSE Div(SumSeq(Vec(LAMBDA i : history[k - window + i].consumption,
                        window)),
             R(window))

RECURSIVE Concat(_)
Concat(seqs) == IF seqs = <<>> THEN <<>> ELSE Head(seqs) \o Concat(Tail(seqs))

\* (current - previous average) / previous average * 100
PercentChange(consumption, rolling_avg) ==
    Mul(Div(Sub(consumption, rolling_avg), rolling_avg), R(100), NoUnits)

\* the change of one record against the rolling average before it, when it
\* is to be reported
Change(customer_id, current, previous, threshold) ==
    LET percent_change == PercentChange(current.consumption,
                                        previous.rolling_avg)
    IN IF Greater(previous.rolling_avg, Zero)
          /\ GreaterEq([percent_change EXCEPT !.n = Abs(percent_change.n)],
                       threshold)
       THEN << [customer_id |-> customer_id, date |-> current.date,
                consumption |-> current.consumption,
                previous_avg |-> previous.rolling_avg,
                percent_change |-> percent_change,
                direction |-> IF Greater(percent_change, Zero)
                              THEN "increase" ELSE "decrease"] >>
       ELSE <<>>

\* the body of the loop over customer_ids
CustomerChanges(consumption_df, customer_id, threshold, window) ==
    LET history == SortByDate(SelectSeq(consumption_df,
                       LAMBDA r : r.customer_id = customer_id))
        rolled == Vec(LAMBDA k : [date |-> history[k].date,
                                  consumption |-> history[k].consumption,
                                  rolling_avg |-> RollingAvg(history, k, window)],
                      Len(history))
        valid_history == SelectSeq(rolled, LAMBDA r : ~IsNaN(r.rolling_avg))
    IN IF Len(history) < window + 1 THEN <<>>
       ELSE Concat(Vec(LAMBDA i : Change(customer_id, valid_history[i + 1],
                                         valid_history[i], threshold),
                       Len(valid_history) - 1))

\* detect_consumption_changes(consumption_df, customer_ids, threshold,
\* window): the rows of the table returned
DetectConsumptionChanges(consumption_df, customer_ids, threshold, window) ==
    IF consumption_df = <<>> THEN <<>>
    ELSE LET ids == IF customer_ids.none
                    THEN Unique(Vec(LAMBDA i : consumption_df[i].customer_id,
                                    Len(consumption_df)))
                    ELSE customer_ids.v
         IN Concat(Vec(LAMBDA c : CustomerChanges(consumption_df, ids[c],
                                                  threshold, window),
                       Len(ids)))

DoDetectConsumptionChanges(consumption_df, customer_ids, threshold, window) ==
    /\ Idle
    /\ LET args == [consumption_df |-> consumption_df,
                    customer_ids |-> customer_ids,
                    threshold |-> threshold, window |-> window]
       IN call' = DataCall("detect_consumption_changes", args, args, "ok",
                           DetectConsumptionChanges(consumption_df,
                               customer_ids, threshold, window))
    /\ UNCHANGED <<fitted, scaler, mu, cov_estimator, kpi>>

\* consumption histories: up to MaxHistory records of the customers 1 and 2,
\* one a month, listed from the oldest or from the newest
HistoryCells == {NaN, R(0), R(2), R(3), R(5)}
HistoryFramesOf(n) ==
    {Vec(LAMBDA i : [customer_id |-> who[i],
                     date |-> IF newestFirst THEN n + 1 - i ELSE i,
                     consumption |-> cells[i]], n) :
        who \in [1..n -> 1..2], cells \in [1..n -> HistoryCells],
        newestFirst \in BOOLEAN}
HistoryFrames == UNION {HistoryFramesOf(n) : n \in 0..MaxHistory}

\* ------------------------------------------------- integrate_weather_data
\* A weather record is its date and its temperature (humidity and uv_index
\* travel with it); a row of the result is a consumption row, with the
\* temperature merged to it where the result has the weather columns.
\* pd.merge(consumption_df, weather_df, on='date', how='left'): the left
\* rows in their order, each once for every weather record of its date, and
\* once with NaN when there is none
MergeLeft(consumption_df, weather_df) ==
    Concat(Vec(LAMBDA i :
                  LET row == consumption_df[i]
                      same == SelectSeq(weather_df,
                                        LAMBDA w : w.date = row.date)
                  IN IF same = <<>>
                     THEN << [index |-> row.index, date |-> row.date,
                              temperature |-> NaN] >>
                     ELSE Vec(LAMBDA k : [index |-> row.index,
                                          date |-> row.date,
                                          temperature |-> same[k].temperature],
                              Len(same)),
               Len(consumption_df)))

\* integrate_weather_data(consumption_df, weather_df)
IntegrateWeatherData(consumption_df, weather_df) ==
    IF consumption_df = <<>> \/ weather_df = <<>>
    THEN [weather_columns |-> FALSE,
          rows |-> Vec(LAMBDA i : [index |-> consumption_df[i].index,
                                   date |-> consumption_df[i].date,
                                   temperature |-> NaN],
                       Len(consumption_df))]
    ELSE [weather_columns |-> TRUE,
          rows |-> MergeLeft(consumption_df, weather_df)]

DoIntegrateWeatherData(consumption_df, weather_df) ==
    /\ Idle
    /\ LET args == [consumption_df |-> consumption_df,
                    weather_df |-> weather_df]
       IN call' = DataCall("integrate_weather_data", args, args, "ok",
                           IntegrateWeatherData(consumption_df, weather_df))
    /\ UNCHANGED <<fitted, scaler, mu, cov_estimator, kpi>>

DatedConsumption ==
    UNION {{Vec(LAMBDA i : [index |-> i, date |-> dates[i]], n) :
               dates \in [1..n -> 1..MaxDate]} : n \in 0..MaxDataRows}
WeatherFrames ==
    UNION {[1..n -> [date : 1..MaxDate, temperature : {R(21), R(22)}]] :
              n \in 0..MaxDataRows}

\* ------------------------------------------------ calculate_monthly_stats
\* ascending order of numbers
RECURSIVE SortNums(_)
SortNums(xs) ==
    IF xs = <<>> THEN <<>>
    ELSE LET k == CHOOSE i \in DOMAIN xs :
                     \A j \in DOMAIN xs : ~Less(xs[j], xs[i])
         IN <<xs[k]>> \o SortNums(SubSeq(xs, 1, k - 1)
                                   \o SubSeq(xs, k + 1, Len(xs)))

\* Series.median(): the middle value, or the mean of the two middle ones
Median(xs) ==
    LET sorted == SortNums(xs)
        n == Len(xs)
    IN IF n % 2 = 1 THEN sorted[(n + 1) \div 2]
       ELSE Div(Add(sorted[n \div 2], sorted[n \div 2 + 1]), R(2))

\* Series.std(): the square root of the variance with divisor n - 1, NaN
\* for a single value
SampleStd(xs) ==
    LET m == Mean(xs)
        ss == SumSeq(Vec(LAMBDA i : Mul(Sub(xs[i], m), Sub(xs[i], m), NoUnits),
                         Len(xs)))
    IN IF Len(xs) < 2 THEN NaN ELSE Sqrt(Div(ss, R(Len(xs) - 1)))

\* agg(['mean', 'median', 'std', 'min', 'max', 'count']) on the consumption
\* values of one group
GroupStats(date, key, xs) ==
    LET sorted == SortNums(xs)
    IN [date |-> date, key |-> key, mean |-> Mean(xs), median |-> Median(xs),
        std |-> SampleStd(xs), min |-> sorted[1], max |-> sorted[Len(xs)],
        count |-> Len(xs)]

\* the keys of groupby(['date', group_by]) in their sorted order
RECURSIVE SortKeys(_)
SortKeys(keys) ==
    IF keys = {} THEN <<>>
    ELSE LET first == CHOOSE k \in keys :
                         \A o \in keys :
                            k[1] < o[1] \/ (k[1] = o[1] /\ k[2] <= o[2])
         IN <<first>> \o SortKeys(keys \ {first})

\* groupby(['date', group_by])['consumption'].agg([...]).reset_index()
MonthlyStats(rows, group_by) ==
    LET keys == SortKeys({<<rows[i].date, rows[i][group_by]>> :
                             i \in DOMAIN rows})
    IN Vec(LAMBDA g :
              LET group == SelectSeq(rows, LAMBDA r :
                               r.date = keys[g][1] /\ r[group_by] = keys[g][2])
              IN GroupStats(keys[g][1], keys[g][2],
                            Vec(LAMBDA i : group[i].consumption, Len(group))),
           Len(keys))

\* calculate_monthly_stats with the column looked for before anything else
CalculateMonthlyStatsColumnFirst(consumption_df, group_by) ==
    IF group_by \notin consumption_df.columns
    THEN [out |-> "ValueError", rows |-> <<>>]
    ELSE IF consumption_df.rows = <<>> THEN [out |-> "ok", rows |-> <<>>]
    ELSE [out |-> "ok", rows |-> MonthlyStats(consumption_df.rows, group_by)]

\* calculate_monthly_stats(consumption_df, group_by): the outcome and the
\* rows of the table returned
CalculateMonthlyStats(consumption_df, group_by) ==
    IF consumption_df.rows = <<>> THEN [out |-> "ok", rows |-> <<>>]
    ELSE IF group_by \notin consumption_df.columns
    THEN [out |-> "ValueError", rows |-> <<>>]
    ELSE [out |-> "ok", rows |-> MonthlyStats(consumption_df.rows, group_by)]

DoCalculateMonthlyStats(consumption_df, group_by) ==
    /\ Idle
    /\ LET args == [consumption_df |-> consumption_df, group_by |-> group_by]
           r == CalculateMonthlyStats(consumption_df, group_by)
       IN call' = DataCall("calculate_monthly_stats", args, args, r.out, r.rows)
    /\ UNCHANGED <<fitted, scaler, mu, cov_estimator, kpi>>

\* consumption tables with and without the stratum column
StatsCells == {R(1), R(3)}
StatsFrames ==
    UNION {{Frame({"date", "consumption", "stratum"}, rows) :
               rows \in [1..n -> [date : 1..MaxDate, stratum : 1..MaxStratum,
                                  consumption : StatsCells]]}
           \cup {Frame({"date", "consumption"}, rows) :
                    rows \in [1..n -> [date : 1..MaxDate,
                                       consumption : StatsCells]]} :
           n \in 0..MaxDataRows}

NextData ==
    \/ \E data_df \in CleanFrames :
          \E columns \in {NoSubset, Subset({"consumption"}), Subset({"other"})} :
             \E lo \in {Zero, One} : \E hi \in {Absent, Just(Zero), Just(One)} :
                DoCleanData(data_df, columns, lo, hi)
    \/ \E c \in StratumCustomers : \E u \in StratumConsumption :
          \E stratum \in StratumArgs : DoFilterByStratum(c, u, stratum)
    \/ \E u \in HistoryFrames : \E ids \in {NoIds, Ids(<<1>>)} :
          \E window \in 1..MaxWindow :
             DoDetectConsumptionChanges(u, ids, R(50), window)
    \/ \E u \in DatedConsumption : \E w \in WeatherFrames :
          DoIntegrateWeatherData(u, w)
    \/ \E u \in StatsFrames : \E group_by \in {"stratum", "zone_code"} :
          DoCalculateMonthlyStats(u, group_by)
    \/ Return

SpecData == Init /\ [][NextData]_vars

\* ------------------------------------------------- main, from end to end
\* list(set(selected_features).intersection(set(features.columns))): the
\* common names in the order the set hands them out, which is any order
SetOrders(names) ==
    {o \in [1..Cardinality(names) -> names] :
        \A i, j \in DOMAIN o : o[i] = o[j] => i = j}

\* features[common_features]: the columns named, in the order named
SelectColumns(features, common_features) ==
    Table(Len(common_features),
          Vec(LAMBDA i : Vec(LAMBDA j : features.rows[i][common_features[j]],
                             Len(common_features)),
              Len(features.rows)))

\* the threshold, the mask and the KPI metrics of a run that scored its rows
MainResult(anomaly_scores, threshold, filtered_customers) ==
    [out |-> "ok", scores |-> anomaly_scores, threshold |-> threshold,
     mask |-> AnomalyMask(anomaly_scores, threshold),
     metrics |-> KpiCards(anomaly_scores, threshold,
                          filtered_customers).metrics]

\* model.score_samples(features_subset) on the fitted model, then the
\* threshold np.mean + factor * np.std
MainScored(d, sc, X_scaled, m, cov, anomaly_threshold_factor, filtered_customers) ==
    LET anomaly_scores ==
            Vec(LAMBDA i :
                   Sqrt(Quadratic(d,
                            Vec(LAMBDA j : Sub(X_scaled[i][j], m[j]), d),
                            cov.precision_, Scale2(sc))),
                Len(X_scaled))
    IN MainResult(anomaly_scores,
                  MeanPlusStd(anomaly_scores, anomaly_threshold_factor),
                  filtered_customers)

\* model.fit(features_subset) from the standardized rows on: the mean and
\* the covariance, or the ValueError of a NaN left in them
MainFitted(d, sc, X_scaled, anomaly_threshold_factor, filtered_customers) ==
    IF HasNaN(d, X_scaled) THEN
        [out |-> "ValueError", scores |-> <<>>, threshold |-> Zero,
         mask |-> <<>>, metrics |-> EmptyMetrics]
    ELSE
        MainScored(d, sc, X_scaled,
                   Vec(LAMBDA j : Mean(Column(X_scaled, j)), d),
                   CovFit(d, X_scaled, Scale2(sc)),
                   anomaly_threshold_factor, filtered_customers)

\* the scaler fitted on the imputed rows and applied to them
MainScaled(d, X_data, sc, anomaly_threshold_factor, filtered_customers) ==
    MainFitted(d, sc, ScalerTransform(sc, X_data.rows),
               anomaly_threshold_factor, filtered_customers)

\* the NaN cells of the table replaced by their column means
MainImputed(d, X_data, anomaly_threshold_factor, filtered_customers) ==
    MainScaled(d, X_data, ScalerFit(d, X_data.rows),
               anomaly_threshold_factor, filtered_customers)

\* MGDAnomaly().fit(features_subset), score_samples(features_subset), the
\* threshold, the mask and create_kpi_cards, on a table that has rows
MainRun(features_subset, anomaly_threshold_factor, filtered_customers) ==
    MainImputed(features_subset.ncols, Imputed(features_subset),
                anomaly_threshold_factor, filtered_customers)

\* main run twice on the same feature table, feature selection, factor and
\* customers: each run gets its column order from its own set
MainTwice(features, selected_features, anomaly_threshold_factor, filtered_customers) ==
    /\ Idle
    /\ \E first, second \in SetOrders(selected_features) :
          LET run(o) == [common_features |-> o,
                         result |-> MainRun(SelectColumns(features, o),
                                            anomaly_threshold_factor,
                                            filtered_customers)]
          IN call' = Call("main: twice", features, features, NoThreshold, "ok",
                          FALSE, <<run(first), run(second)>>, <<>>)
    /\ UNCHANGED <<fitted, scaler, mu, cov_estimator, kpi>>

\* feature tables of two columns that have rows
FeatureTables == UNION {TablesOf(2, n) : n \in 1..MaxPolicyRows}

\* customer tables with the fraud label, MaxCustomers rows each, the first
\* of them a fraud
LabelledCustomers ==
    {c \in CustomerTables :
        /\ c.has_label
        /\ Len(c.is_fraudulent) = MaxCustomers
        /\ c.is_fraudulent[1]}

\* the factor the sidebar slider starts at
DefaultFactor == R(3)

NextPipeline ==
    \/ \E X \in FeatureTables : \E names \in (SUBSET {1, 2}) \ {{}} :
          \E c \in LabelledCustomers :
             MainTwice(X, names, DefaultFactor, c)
    \/ Return

SpecPipeline == Init /\ [][NextPipeline]_vars

\* the tables of the end-to-end scenario: five customers with three
\* features, four of them near (0, 0, 0) and one at (50, 50, 50)
Far == R(50)
Customers == 1..5
NearRows == {<<R(v), R(v), R(v)>> : v \in 0..MaxNoise}
ScenarioTables ==
    {Table(3, [i \in Customers |-> IF i = o THEN <<Far, Far, Far>> ELSE near[i]]) :
        o \in Customers, near \in [Customers -> NearRows]}

\* any five scores
ScenarioVectors == [Customers -> ScoreVals]

\* the runs of main on the scenario's tables, and of its threshold code on
\* any five scores, with the default factor
NextScenario ==
    \/ Construct
    \/ \E X \in ScenarioTables : Attributes = Fresh /\ Fit(X)
    \/ MainScore(R(3))
    \/ \E s \in ScenarioVectors : Attributes = Fresh /\ MainThreshold(s, R(3))
    \/ Return

SpecScenario == Init /\ [][NextScenario]_vars

\* ------------------------------------------------------------------ claims
\* x > t on the reals: false as soon as x is NaN
Above(x, t) == x.d # 0 /\ t.d # 0 /\ x.n * t.d > t.n * x.d

\* C1: in the application's mask, in create_kpi_cards and in predict a row
\* is flagged if and only if its score is strictly greater than the
\* threshold; a score equal to the threshold is not flagged.
C1_StrictThreshold ==
    /\ kpi.op = "main" =>
          /\ Len(kpi.mask) = Len(kpi.scores)
          /\ \A i \in DOMAIN kpi.mask :
                kpi.mask[i] <=> Above(kpi.scores[i], kpi.threshold)
    /\ kpi.op = "create_kpi_cards" =>
          /\ Len(kpi.mask) \in {0, Min(Len(kpi.scores),
                                       Len(kpi.customers.is_fraudulent))}
          /\ \A i \in DOMAIN kpi.mask :
                kpi.mask[i] <=> Above(kpi.scores[i], kpi.threshold)
          /\ kpi.metrics.anomalies_detected =
                Cardinality({i \in DOMAIN kpi.mask :
                                Above(kpi.scores[i], kpi.threshold)})
    /\ (call.op = "predict" /\ call.out = "ok") =>
          /\ Len(call.values) = Len(call.scores)
          /\ \A i \in DOMAIN call.values :
                (call.values[i] = 1) <=>
                    Above(call.scores[i],
                          IF call.threshold.none
                              THEN MeanPlusStd(call.scores, R(3))
                              ELSE call.threshold.v)

\* C1 witness: create_kpi_cards saw a score equal to the threshold, which it
\* did not flag, next to a greater one, which it flagged
C1_Witness ==
    /\ kpi.op = "create_kpi_cards"
    /\ \E i \in DOMAIN kpi.mask : kpi.scores[i] = kpi.threshold /\ ~kpi.mask[i]
    /\ \E i \in DOMAIN kpi.mask : kpi.mask[i]

\* a table score_samples can score: a table of at least one row with the
\* column count of the fitted scaler and covariance
Scorable(X) ==
    /\ ~X.none /\ Len(X.rows) > 0
    /\ X.ncols = scaler.n_features_in_
    /\ X.ncols = cov_estimator.n_features_in_

\* the score the fitted state gives to row i of the batch X, NaN cells of the
\* row replaced by the batch's column means
ScoreOfRow(X, i) ==
    LET row == [j \in 1..X.ncols |->
                   IF IsNaN(X.rows[i][j]) THEN NanMean(Column(X.rows, j))
                                          ELSE X.rows[i][j]]
    IN RowScore([j \in 1..X.ncols |-> Standardize(scaler, j, row[j])])

\* C2: on a fitted model score_samples returns one score per input row, in
\* input row order (score i is the score of row i), rows with NaN included.
C2_OneScorePerRow ==
    (call.op = "score_samples" /\ fitted) =>
        /\ Scorable(call.X) <=> call.out = "ok"
        /\ call.out = "ok" =>
              /\ Len(call.values) = Len(call.X.rows)
              /\ \A i \in DOMAIN call.values :
                    call.values[i] = ScoreOfRow(call.X, i)

\* C2 witness: two rows with different scores, the first with a NaN cell
C2_Witness ==
    /\ call.op = "score_samples" /\ fitted /\ call.out = "ok"
    /\ Len(call.values) = 2
    /\ \E j \in 1..call.X.ncols : IsNaN(call.X.rows[1][j])
    /\ ~IsNaN(call.values[1]) /\ ~IsNaN(call.values[2])
    /\ call.values[1] # call.values[2]

Readers == {"score_samples", "predict", "get_feature_importance"}

\* the table handed to fit holds no data: None, or no rows
EmptyInput(X) == X.none \/ Len(X.rows) = 0

\* C3 as stated: score_samples, predict and get_feature_importance on a
\* model that is not fitted are turned away with an error.
C3_UnfittedRejected ==
    (call.op \in Readers /\ ~call.before.fitted) => call.out # "ok"

\* C3: on a model that is not fitted, score_samples, predict and
\* get_feature_importance raise no error and return an empty array; no score
\* and no importance is computed and the model stays unfitted.
C3_UnfittedEmpty ==
    (call.op \in Readers /\ ~call.before.fitted) =>
        /\ call.out = "ok"
        /\ call.values = <<>> /\ call.scores = <<>>
        /\ ~fitted

\* C3 witness: predict was called with the fitted flag down, on an instance
\* whose covariance an earlier fit had set and with a table of that shape
C3_Witness ==
    /\ call.op = "predict" /\ ~call.before.fitted
    /\ call.before.cov_estimator # UnsetCov
    /\ Scorable(call.X)
    /\ call.out = "ok" /\ call.values = <<>>

\* C4: fit with None or with a table of no rows raises nothing, returns the
\* instance and leaves the model unfitted; score_samples then computes no
\* score, whatever table it is given.
C4_EmptyFit ==
    (call.op = "fit" /\ EmptyInput(call.X)) =>
        /\ call.out = "ok" /\ call.self
        /\ ~fitted
        /\ \A X \in ScoreTables :
              ScoreSamples(X).out = "ok" /\ ScoreSamples(X).scores = <<>>

\* C4 witness: fit with a table of no rows, on an instance fitted before
C4_Witness ==
    /\ call.op = "fit" /\ ~call.X.none /\ Len(call.X.rows) = 0
    /\ call.before.fitted /\ ~fitted

\* C5 as stated: a fitted model stays fitted under every later call.
C5_FittedForever ==
    call.before.fitted => fitted

\* C5: a fitted model stays fitted under score_samples, predict,
\* get_feature_importance and under fit with a table of at least one row,
\* a fit that raises included; fit with None or with a table of no rows
\* takes the fitted flag down.
C5_FittedUnlessEmptyFit ==
    /\ (call.before.fitted /\ ~(call.op = "fit" /\ EmptyInput(call.X)))
          => fitted
    /\ (call.op = "fit" /\ EmptyInput(call.X)) => ~fitted

\* C5 witness: a fit on a fitted model raised and the model is still fitted
C5_Witness ==
    /\ call.op = "fit" /\ call.before.fitted
    /\ call.out = "ValueError" /\ fitted

FreshFit(X) ==
    LET rows == Imputed(X).rows
        sc == [n_features_in_ |-> X.ncols,
               mean_ |-> [j \in 1..X.ncols |-> NanMean(Column(rows, j))],
               var_ |-> [j \in 1..X.ncols |-> NanVar(Column(rows, j))]]
        X_scaled == ScalerTransform(sc, rows)
    IN [fitted |-> TRUE,
        scaler |-> sc,
        mu |-> Mu([j \in 1..X.ncols |-> Mean(Column(X_scaled, j))]),
        cov_estimator |-> CovFit(X.ncols, X_scaled, Scale2(sc))]

\* C7: after a fit that succeeds the mean, the scaling parameters and the
\* covariance are those of a new instance fitted on that table alone,
\* whatever the instance was fitted on before.
C7_RefitReplaces ==
    (call.op = "fit" /\ call.out = "ok" /\ ~EmptyInput(call.X)) =>
        Attributes = FreshFit(call.X)

\* C7 witness: a fitted instance was fitted again, on a table that gives
\* another scaler, mean vector or covariance than it had
C7_Witness ==
    /\ call.op = "fit" /\ call.out = "ok" /\ ~EmptyInput(call.X)
    /\ call.before.fitted
    /\ call.before.scaler # scaler
    /\ call.before.cov_estimator # cov_estimator

\* C8: on a fitted model a table whose column count is not the one of the
\* fit is turned away with an error by score_samples and predict; no score
\* and no flag is returned for it.
C8_ColumnCountChecked ==
    (/\ call.op \in {"score_samples", "predict"}
     /\ call.before.fitted /\ ~call.X.none
     /\ \/ call.X.ncols # call.before.scaler.n_features_in_
        \/ call.X.ncols # call.before.cov_estimator.n_features_in_) =>
        /\ call.out = "ValueError"
        /\ call.values = <<>> /\ call.scores = <<>>

\* C8 witness: score_samples turned a table of two rows away whose column
\* count is not the one of the fitted covariance
C8_Witness ==
    /\ call.op = "score_samples" /\ call.before.fitted
    /\ Len(call.X.rows) = 2
    /\ call.X.ncols # call.before.cov_estimator.n_features_in_
    /\ call.out = "ValueError" /\ call.values = <<>>

\* the determinant of a matrix of one or two columns
Det(d, C, s2) ==
    IF d = 1 THEN C[1][1]
    ELSE Sub(Mul(C[1][1], C[2][2], s2), Mul(C[1][2], C[2][1], s2))

\* the product of two square matrices
MatMul(d, A, B, s2) ==
    [j \in 1..d |-> [k \in 1..d |->
        SumSeq([l \in 1..d |-> Mul(A[j][l], B[l][k], s2)])]]

\* P is the Moore-Penrose pseudo-inverse of the symmetric matrix C
IsPseudoInverse(d, P, C, s2) ==
    /\ MatMul(d, MatMul(d, C, P, s2), C, s2) = C
    /\ MatMul(d, MatMul(d, P, C, s2), P, s2) = P
    /\ MatMul(d, C, P, s2) = MatMul(d, P, C, s2)
    /\ \A j, k \in 1..d : P[j][k] = P[k][j]

\* X is a table with data, without a column of NaN alone, whose standardized
\* covariance has no inverse (a constant column, or two collinear columns)
Singular(X) ==
    /\ ~EmptyInput(X)
    /\ \A j \in 1..X.ncols : \E i \in DOMAIN X.rows : ~IsNaN(X.rows[i][j])
    /\ LET f == FreshFit(X)
       IN Det(X.ncols, f.cov_estimator.covariance_, Scale2(f.scaler)).n = 0

\* C9 as stated: a fit on data whose covariance has no inverse fails with an
\* error.
C9_SingularFitFails ==
    (call.op = "fit" /\ Singular(call.X)) => call.out # "ok"

\* C9: a fit on data whose covariance has no inverse raises nothing and
\* leaves the model fitted, its precision the pseudo-inverse of the
\* covariance; score_samples then returns one score per row of that data.
C9_SingularFitSucceeds ==
    (call.op = "fit" /\ Singular(call.X)) =>
        /\ call.out = "ok" /\ call.self /\ fitted
        /\ IsPseudoInverse(call.X.ncols, cov_estimator.precision_,
                           cov_estimator.covariance_, Scale2(scaler))
        /\ LET r == ScoreSamples(call.Xafter)
           IN /\ r.out = "ok"
              /\ Len(r.scores) = Len(call.X.rows)
              /\ \A i \in DOMAIN r.scores : ~IsNaN(r.scores[i])

\* C9 witness: a fit on two collinear columns that both vary
C9_Witness ==
    /\ call.op = "fit" /\ Singular(call.X)
    /\ call.X.ncols = 2
    /\ cov_estimator.covariance_[1][2].n # 0
    /\ fitted

\* X has a column in which every row is NaN
AllNaNColumn(X) ==
    /\ ~EmptyInput(X)
    /\ \E j \in 1..X.ncols : \A i \in DOMAIN X.rows : IsNaN(X.rows[i][j])

\* C10 as stated: a table with a column that is NaN in every row is turned
\* away with an error, by fit and by score_samples on a fitted model alike;
\* it never yields NaN scores.
C10_AllNaNColumnRejected ==
    /\ (call.op = "fit" /\ AllNaNColumn(call.X)) => call.out # "ok"
    /\ (call.op = "score_samples" /\ call.before.fitted
            /\ AllNaNColumn(call.X)) =>
          /\ call.out # "ok"
          /\ \A i \in DOMAIN call.values : ~IsNaN(call.values[i])

\* the far row of a scenario table
IsFar(row) == row = <<Far, Far, Far>>

\* the application ran on a scenario table: fit, scores, threshold and mask
ScenarioRun == call.op = "main" /\ ~call.X.none /\ call.out = "ok"

KpiRows == 1..Min(Len(kpi.scores), Len(kpi.customers.is_fraudulent))
Flagged == {i \in KpiRows : Above(kpi.scores[i], kpi.threshold)}
Frauds == {i \in KpiRows : kpi.customers.is_fraudulent[i]}

\* v is the rational a / b
IsRatio(v, a, b) == ~IsNaN(v) /\ v.u = {} /\ v.n * b = a * v.d

\* C12: with scores and customers at hand create_kpi_cards reports
\* detection_rate = anomalies / total * 100, and with the fraud label
\* precision = true_positives / anomalies * 100, recall = true_positives /
\* true_frauds * 100 and f1 = 2 * precision * recall / (precision + recall),
\* anomalies being the scores > threshold and true_positives the flagged
\* frauds; the example of 100 customers, 10 frauds and 8 flagged of which 5
\* are frauds gives precision 62.5, recall 50 and f1 500/9 (55.6).
C12_KpiFormulas ==
    (kpi.op = "create_kpi_cards" /\ KpiRows # {}) =>
        LET m == kpi.metrics
            anomalies == Cardinality(Flagged)
            true_positives == Cardinality(Flagged \cap Frauds)
            true_frauds == Cardinality(Frauds)
        IN /\ m.total_customers = Cardinality(KpiRows)
           /\ m.anomalies_detected = anomalies
           /\ IsRatio(m.detection_rate, 100 * anomalies, Cardinality(KpiRows))
           /\ kpi.customers.has_label =>
                 /\ anomalies > 0 =>
                       IsRatio(m.precision.v, 100 * true_positives, anomalies)
                 /\ true_frauds > 0 =>
                       IsRatio(m.recall.v, 100 * true_positives, true_frauds)
                 /\ true_positives > 0 =>
                       m.f1.v = Div(Mul(R(2), Mul(m.precision.v, m.recall.v,
                                                  NoUnits), NoUnits),
                                    Add(m.precision.v, m.recall.v))
                 /\ (Cardinality(KpiRows) = 100 /\ true_frauds = 10
                        /\ anomalies = 8 /\ true_positives = 5) =>
                       /\ m.precision.v = Norm(125, 2, {})
                       /\ m.recall.v = R(50)
                       /\ m.f1.v = Norm(500, 9, {})

\* C12 witness: the example of 100 customers was run
C12_Witness ==
    /\ kpi.op = "create_kpi_cards" /\ kpi.customers.has_label
    /\ Cardinality(KpiRows) = 100
    /\ Cardinality(Frauds) = 10 /\ Cardinality(Flagged) = 8
    /\ Cardinality(Flagged \cap Frauds) = 5
    /\ kpi.metrics.precision.v = Norm(125, 2, {})

\* C13: with the fraud label present create_kpi_cards never divides by
\* zero: every metric is a number, precision is 0 when no row is flagged,
\* recall is 0 when no customer is a fraud, and f1 is 0 when precision and
\* recall are both 0.
C13_NoDivisionByZero ==
    (kpi.op = "create_kpi_cards" /\ KpiRows # {} /\ kpi.customers.has_label) =>
        LET m == kpi.metrics
        IN /\ ~m.precision.none /\ ~m.recall.none /\ ~m.f1.none
           /\ ~IsNaN(m.precision.v) /\ ~IsNaN(m.recall.v) /\ ~IsNaN(m.f1.v)
           /\ ~IsNaN(m.detection_rate)
           /\ Flagged = {} => m.precision.v = Zero
           /\ Frauds = {} => m.recall.v = Zero
           /\ (m.precision.v = Zero /\ m.recall.v = Zero) => m.f1.v = Zero

\* C13 witness: labelled customers, none of them a fraud and none flagged
C13_Witness ==
    /\ kpi.op = "create_kpi_cards" /\ kpi.customers.has_label
    /\ Cardinality(KpiRows) = 2
    /\ Flagged = {} /\ Frauds = {}
    /\ kpi.metrics.f1 = Just(Zero)

\* C14: when the customer table has no fraud label column, precision, recall
\* and f1 are None, not 0, while the total, the number of anomalies and the
\* detection rate are computed as with the label.
C14_NoLabelNoMetrics ==
    (kpi.op = "create_kpi_cards" /\ KpiRows # {} /\ ~kpi.customers.has_label) =>
        LET m == kpi.metrics
        IN /\ m.precision.none /\ m.recall.none /\ m.f1.none
           /\ m.total_customers = Cardinality(KpiRows)
           /\ m.anomalies_detected = Cardinality(Flagged)
           /\ IsRatio(m.detection_rate, 100 * Cardinality(Flagged),
                      Cardinality(KpiRows))

\* C14 witness: two customers without the label column, one of them flagged
C14_Witness ==
    /\ kpi.op = "create_kpi_cards" /\ ~kpi.customers.has_label
    /\ Cardinality(KpiRows) = 2 /\ Cardinality(Flagged) = 1
    /\ kpi.metrics.precision.none
    /\ kpi.metrics.detection_rate = R(50)

\* predict was given a threshold and returned an array of at least one entry
PredictRun ==
    /\ call.op = "predict" /\ call.out = "ok"
    /\ ~call.threshold.none /\ Len(call.scores) > 0

\* C15 as stated: what predict returns holds, for every input row, the
\* decision and the score itself (every score is among the returned
\* numbers).
C15_ScoresReturned ==
    PredictRun =>
        \A i \in DOMAIN call.scores :
            \E k \in DOMAIN call.values : R(call.values[k]) = call.scores[i]

\* C15: predict(X, threshold) returns one integer per input row and nothing
\* else: 1 if the row's score_samples(X) score is > threshold, 0 if not;
\* the scores are not part of what it returns.
C15_DecisionsOnly ==
    PredictRun =>
        /\ call.scores = ScoreSamples(call.X).scores
        /\ Len(call.values) = Len(call.X.rows)
        /\ \A i \in DOMAIN call.values :
              /\ call.values[i] \in {0, 1}
              /\ call.values[i] = 1
                    <=> Above(call.scores[i], call.threshold.v)

\* C15 witness: predict returned a 1 and a 0 for two rows of a table, the
\* scores being neither 0 nor 1
C15_Witness ==
    /\ PredictRun
    /\ \E i, j \in DOMAIN call.values : call.values[i] = 1 /\ call.values[j] = 0
    /\ \A i \in DOMAIN call.scores :
          ~IsNaN(call.scores[i]) /\ call.scores[i] \notin {Zero, One}

\* C16 as stated: every score that score_samples returns on a fitted model
\* is a non-negative real number.
C16_ScoresNonNegative ==
    (call.op = "score_samples" /\ call.before.fitted /\ call.out = "ok") =>
        \A i \in DOMAIN call.values :
            ~IsNaN(call.values[i]) /\ call.values[i].n >= 0

\* C17 as stated: prepare_features returns a feature table, a customer-id
\* series and a customer table of the same number of rows and in the same
\* customer order (row i of each is the same customer), and no customer of
\* the customer table misses from the feature table.
C17_RowsInLockstep ==
    call.op = "prepare_features" =>
        LET v == call.values
        IN /\ Len(v.features) = Len(v.customer_ids)
           /\ Len(v.features) = Len(v.filtered_customers)
           /\ \A i \in DOMAIN v.features :
                 /\ v.customer_ids[i] = v.features[i]
                 /\ v.filtered_customers[i].customer_id = v.features[i]

\* the standardized training data of a fit on the table X: the imputed rows
\* under the scaler fitted on them
StandardizedTraining(X) ==
    LET rows == Imputed(X).rows
    IN ScalerTransform(ScalerFit(X.ncols, rows), rows)

\* the covariance the model holds is the one a fit on the table X leaves
TrainedOn(X) ==
    /\ ~EmptyInput(X)
    /\ ~HasNaN(X.ncols, StandardizedTraining(X))
    /\ FreshFit(X).cov_estimator = cov_estimator

\* the variance of column j of the standardized training data, computed on
\* that column alone
StandardizedVariance(X, j) ==
    LET col == Column(StandardizedTraining(X), j)
        m == Mean(col)
        s2 == Scale2(ScalerFit(X.ncols, Imputed(X).rows))
    IN Mean(Vec(LAMBDA i : Mul(Sub(col[i], m), Sub(col[i], m), s2), Len(col)))

\* C18: get_feature_importance on a fitted model returns one value per
\* fitted column, in the column order of the fit; value j is the variance of
\* column j of the standardized training data (the diagonal entry j of its
\* covariance matrix), whatever the covariances between the columns are.
C18_ImportanceIsVariance ==
    (call.op = "get_feature_importance" /\ call.before.fitted) =>
        \E X \in FitTables :
            /\ TrainedOn(X)
            /\ Len(call.values) = X.ncols
            /\ \A j \in 1..X.ncols :
                  call.values[j] = StandardizedVariance(X, j)

\* C18 witness: get_feature_importance on a model fitted on two columns, one
\* constant and one not, returned two values that differ
C18_Witness ==
    /\ call.op = "get_feature_importance" /\ call.before.fitted
    /\ Len(call.values) = 2
    /\ call.values[1] # call.values[2]

Args == call.X.args
ArgsAfter == call.Xafter.args

\* clean_data is to keep the row r: no given column of it is missing, and
\* its consumption, where the table has one, lies within the bounds
CleanKeeps(r) ==
    /\ \A c \in (IF Args.columns.none THEN Args.data_df.columns
                 ELSE Args.columns.v) : r.cells[c].d # 0
    /\ "consumption" \in Args.data_df.columns =>
          LET x == r.cells["consumption"]
              lo == Args.min_consumption
              hi == Args.max_consumption
          IN /\ x.d # 0
             /\ x.n * lo.d >= lo.n * x.d
             /\ hi.none \/ x.n * hi.v.d <= hi.v.n * x.d

\* C21: the table clean_data returns holds exactly the rows of its input
\* that have no missing value in the given columns and a consumption within
\* [min_consumption, max_consumption] (no upper bound when None is given),
\* in the order of the input; the input table is as it was; an input without
\* rows comes back as it is.
C21_CleanDataKeepsValidRows ==
    (call.op = "clean_data" /\ call.out = "ok") =>
        LET kept == call.values.rows
        IN /\ call.values.columns = Args.data_df.columns
           /\ kept = SelectSeq(Args.data_df.rows, CleanKeeps)
           /\ \A i, j \in DOMAIN kept : i < j => kept[i].index < kept[j].index
           /\ ArgsAfter = Args
           /\ Args.data_df.rows = <<>> => call.values = Args.data_df

\* C21 witness: of two rows clean_data dropped the first, whose consumption
\* is above an upper bound of 0, and returned the second
C21_Witness ==
    /\ call.op = "clean_data" /\ call.out = "ok"
    /\ "consumption" \in Args.data_df.columns
    /\ Len(Args.data_df.rows) = 2 /\ Len(call.values.rows) = 1
    /\ call.values.rows[1].index = 2
    /\ Args.max_consumption = Just(Zero)
    /\ Greater(Args.data_df.rows[1].cells["consumption"], Zero)

\* the customer row c has the stratum asked for: the number, or one of the
\* list
StratumAsked(c) ==
    \E v \in 1..(MaxStratum + 1) :
        /\ c.stratum = v
        /\ \/ Args.stratum = OneStratum(v)
           \/ ~Args.stratum.single /\ v \in Args.stratum.v

\* C22: filter_by_stratum returns exactly the customers whose stratum is the
\* number asked for (or one of the list asked for), and exactly the
\* consumption rows whose customer_id is the one of a returned customer.
C22_FilterByStratum ==
    call.op = "filter_by_stratum" =>
        LET customers == call.values.filtered_customers
        IN /\ customers = SelectSeq(Args.customers_df, StratumAsked)
           /\ call.values.filtered_consumption =
                 SelectSeq(Args.consumption_df, LAMBDA r :
                     \E i \in DOMAIN customers :
                         customers[i].customer_id = r.customer_id)

\* C22 witness: asked for the single stratum 1, filter_by_stratum returned
\* one customer of two and one consumption row of two, the other row being
\* the one of the customer left out
C22_Witness ==
    /\ call.op = "filter_by_stratum"
    /\ Args.stratum = OneStratum(1)
    /\ Len(Args.customers_df) = 2
    /\ Len(call.values.filtered_customers) = 1
    /\ Len(Args.consumption_df) = 2
    /\ Len(call.values.filtered_consumption) = 1
    /\ \E i \in DOMAIN Args.customers_df : \E k \in DOMAIN Args.consumption_df :
          /\ Args.customers_df[i].stratum # 1
          /\ Args.customers_df[i].customer_id = Args.consumption_df[k].customer_id

\* the customers detect_consumption_changes was asked to look at
Analysed ==
    IF Args.customer_ids.none
    THEN {Args.consumption_df[i].customer_id : i \in DOMAIN Args.consumption_df}
    ELSE {Args.customer_ids.v[i] : i \in DOMAIN Args.customer_ids.v}

\* the reports on the record of customer c dated date
ReportsOn(c, date) ==
    {i \in DOMAIN call.values :
        call.values[i].customer_id = c /\ call.values[i].date = date}

\* the consumption x deviates from the positive average a by at least
\* threshold percent
Deviates(x, a, threshold) ==
    LET delta == Sub(x, a)
    IN /\ ~IsNaN(delta) /\ a.n > 0
       /\ Abs(delta.n) * 100 * a.d * threshold.d >= threshold.n * a.n * delta.d

\* C23 as stated: for each customer with at least window+1 records, taken in
\* date order, a record is reported if and only if the rolling average at
\* the record before it is positive and the record's consumption deviates
\* from that average by at least threshold percent; the report says
\* 'increase' when the consumption is above the average and 'decrease'
\* otherwise.
C23_ChangeAgainstPrecedingRecord ==
    call.op = "detect_consumption_changes" =>
        \A c \in Analysed :
            LET history == SortByDate(SelectSeq(Args.consumption_df,
                               LAMBDA r : r.customer_id = c))
            IN Len(history) >= Args.window + 1 =>
                 \A k \in 2..Len(history) :
                    LET a == RollingAvg(history, k - 1, Args.window)
                        x == history[k].consumption
                    IN /\ ReportsOn(c, history[k].date) # {}
                          <=> Deviates(x, a, Args.threshold)
                       /\ \A i \in ReportsOn(c, history[k].date) :
                             call.values[i].direction =
                                 IF Greater(x, a) THEN "increase"
                                                  ELSE "decrease"

\* C24 as stated: integrate_weather_data returns one row for each row of the
\* consumption table, in the same order, and each row carries the
\* temperature (humidity, uv_index) of the weather record of its date; the
\* number of rows neither grows nor shrinks.
C24_OneRowPerConsumptionRow ==
    call.op = "integrate_weather_data" =>
        LET rows == call.values.rows
        IN /\ Len(rows) = Len(Args.consumption_df)
           /\ \A i \in DOMAIN rows :
                 /\ rows[i].index = Args.consumption_df[i].index
                 /\ rows[i].date = Args.consumption_df[i].date
                 /\ \A k \in DOMAIN Args.weather_df :
                       Args.weather_df[k].date = rows[i].date =>
                           /\ call.values.weather_columns
                           /\ rows[i].temperature =
                                  Args.weather_df[k].temperature

\* the consumption values of the input rows of the date and group value of
\* the statistics row g
GroupOf(g) ==
    LET rows == SelectSeq(Args.consumption_df.rows, LAMBDA r :
                    r.date = g.date /\ r[Args.group_by] = g.key)
    IN Vec(LAMBDA i : rows[i].consumption, Len(rows))

\* the statistics row g tells mean, median, std, min, max and count of the
\* consumption values xs
StatsOf(g, xs) ==
    /\ g.count = Len(xs) /\ g.count > 0
    /\ Mul(g.mean, R(g.count), NoUnits) = SumSeq(xs)
    /\ \E i \in DOMAIN xs : xs[i] = g.min
    /\ \E i \in DOMAIN xs : xs[i] = g.max
    /\ \A i \in DOMAIN xs : ~Less(xs[i], g.min) /\ ~Less(g.max, xs[i])
    /\ 2 * Len(SelectSeq(xs, LAMBDA x : Less(x, g.median))) <= Len(xs)
    /\ 2 * Len(SelectSeq(xs, LAMBDA x : Less(g.median, x))) <= Len(xs)
    /\ \E i, j \in DOMAIN xs :
          /\ g.median = Div(Add(xs[i], xs[j]), R(2))
          /\ \A k \in DOMAIN xs :
                ~(Less(xs[i], xs[k]) /\ Less(xs[k], xs[j]))
    /\ g.std = SampleStd(xs)

\* the table returned has one row for each (date, group value) pair of the
\* input, with the statistics of the pair
OneRowPerPair ==
    /\ \A i, j \in DOMAIN call.values :
          (call.values[i].date = call.values[j].date
           /\ call.values[i].key = call.values[j].key) => i = j
    /\ \A k \in DOMAIN Args.consumption_df.rows :
          \E i \in DOMAIN call.values :
             /\ call.values[i].date = Args.consumption_df.rows[k].date
             /\ call.values[i].key =
                    Args.consumption_df.rows[k][Args.group_by]
    /\ \A i \in DOMAIN call.values :
          StatsOf(call.values[i], GroupOf(call.values[i]))

\* C25 as stated: calculate_monthly_stats returns one row for each distinct
\* (date, group value) pair of the table, with the statistics of the pair,
\* and raises ValueError whenever the table lacks the group_by column.
C25_RaisesWheneverColumnAbsent ==
    call.op = "calculate_monthly_stats" =>
        /\ call.out = "ok" => OneRowPerPair
        /\ Args.group_by \notin Args.consumption_df.columns =>
              call.out = "ValueError"

\* C25: calculate_monthly_stats returns one row for each distinct (date,
\* group value) pair of the table, with mean, median, std, min, max and
\* count of the pair's consumption; it raises ValueError when a table that
\* has rows lacks the group_by column, and returns an empty table for a
\* table without rows, with the column or without.
C25_RaisesUnlessEmpty ==
    call.op = "calculate_monthly_stats" =>
        /\ call.out = "ok" => OneRowPerPair
        /\ (Args.group_by \notin Args.consumption_df.columns
            /\ Args.consumption_df.rows # <<>>) => call.out = "ValueError"
        /\ Args.consumption_df.rows = <<>> =>
              (call.out = "ok" /\ call.values = <<>>)
        /\ call.out = "ValueError" =>
              Args.group_by \notin Args.consumption_df.columns

\* C25 witness: a table without rows and without the group_by column gave
\* an empty table and no error
C25_Witness ==
    /\ call.op = "calculate_monthly_stats"
    /\ Args.consumption_df.rows = <<>>
    /\ Args.group_by \notin Args.consumption_df.columns
    /\ call.out = "ok" /\ call.values = <<>>

\* the mean of the values of column j of the table X that are not NaN,
\* summed entry by entry; NaN when there is none
BatchMean(X, j) ==
    LET known == {i \in DOMAIN X.rows : X.rows[i][j].d # 0}
        total[S \in SUBSET known] ==
            IF S = {} THEN Zero
            ELSE LET i == CHOOSE k \in S : TRUE
                 IN Add(X.rows[i][j], total[S \ {i}])
    IN IF known = {} THEN NaN ELSE Div(total[known], R(Cardinality(known)))

\* C26 as stated: when the table handed to score_samples holds NaN entries,
\* each of them is replaced by the mean of the non-NaN values of its column
\* in that table, and a score is returned for every row.
C26_NaNReplacedByBatchMean ==
    (/\ call.op = "score_samples" /\ call.before.fitted /\ call.out = "ok"
     /\ HasNaN(call.X.ncols, call.X.rows)) =>
        /\ Len(call.values) = Len(call.X.rows)
        /\ \A i \in DOMAIN call.X.rows : \A j \in 1..call.X.ncols :
              IF IsNaN(call.X.rows[i][j])
              THEN /\ ~IsNaN(call.Xafter.rows[i][j])
                   /\ call.Xafter.rows[i][j] = BatchMean(call.X, j)
              ELSE call.Xafter.rows[i][j] = call.X.rows[i][j]

\* the KPI record of the empty case: total 0, anomalies 0, detection rate 0,
\* and precision, recall and f1 None
IsEmptyRecord(m) ==
    /\ m.total_customers = 0 /\ m.anomalies_detected = 0
    /\ m.detection_rate = R(0)
    /\ m.precision.none /\ m.recall.none /\ m.f1.none

\* C27: with an empty feature table main fits no model and sets the
\* threshold to 0, an empty mask and the KPI record of the empty case;
\* create_kpi_cards returns that record, and raises nothing, whenever the
\* score vector or the customer table is empty.
C27_EmptyCase ==
    /\ kpi.op = "main: no data" =>
          /\ Attributes = call.before
          /\ kpi.scores = <<>> /\ kpi.mask = <<>>
          /\ kpi.threshold = R(0)
          /\ IsEmptyRecord(kpi.metrics)
    /\ (/\ kpi.op = "create_kpi_cards"
        /\ Len(kpi.scores) = 0 \/ Len(kpi.customers.is_fraudulent) = 0) =>
          /\ call.out = "ok"
          /\ IsEmptyRecord(kpi.metrics)

\* C27 witness: main ran on a feature table without rows while customers
\* were at hand
C27_Witness ==
    /\ kpi.op = "main: no data"
    /\ call.X.rows = <<>> /\ call.X.ncols = 2
    /\ Len(kpi.customers.is_fraudulent) = 2
    /\ kpi.metrics.total_customers = 0

\* C28 as stated: a fit that ends with an exception leaves scaler, mu,
\* covariance, precision and the fitted flag as they were before the call,
\* and whenever the model is fitted its scaler, mu and covariance are those
\* of a fit on one and the same table.
C28_FailedFitKeepsState ==
    /\ (call.op = "fit" /\ call.out # "ok") => Attributes = call.before
    /\ fitted =>
          \E X \in FitTables :
              /\ ~EmptyInput(X)
              /\ ~HasNaN(X.ncols, StandardizedTraining(X))
              /\ Attributes = FreshFit(X)

\* C29 as stated: fit and score_samples leave their argument alone: after
\* the call the caller's table holds the values, NaN entries included, that
\* it held before.
C29_ArgumentUntouched ==
    call.op \in {"fit", "score_samples"} => call.Xafter = call.X

\* C30 as stated: main run twice on equal inputs gives the same fitted
\* column order, the same scores, threshold, mask and metrics, or the same
\* error.
C30_SameRunSameResult ==
    call.op = "main: twice" => call.values[1] = call.values[2]

====
